---- MODULE Spec2Model ----
(***************************************************************************)
(* Model of extraer-proyecto.py: a walk of the working directory that      *)
(* copies every file with an allow-listed extension into                    *)
(* proyecto_swift.txt, one record (header + content or error annotation)   *)
(* per file.                                                                *)
(*                                                                          *)
(* Text is modelled character by character: a name, a path, a file's        *)
(* bytes and every string written to the output are sequences of            *)
(* one-character strings, so that splitext, startswith, lower, the          *)
(* substring test, join and the f-strings are computed, not assumed.        *)
(*                                                                          *)
(* Environment assumptions: a POSIX system (os.sep is "/", text-mode        *)
(* writes do not translate "\n"); file names are valid text; the output     *)
(* file can be created in the working directory; the output stays below     *)
(* the buffer size, so it reaches the disk when the file is closed; no      *)
(* directory of the tree is a symbolic link.                                *)
(***************************************************************************)
EXTENDS Integers, Sequences, FiniteSets, TLC

VARIABLES fs,        \* the directory tree: path -> [dirs, files] (os.scandir)
          pc,        \* position of the script: start, walk, files, done, aborted
          stack,     \* directories os.walk has still to yield (last = next)
          root,      \* loop variable root  (line 9)
          dirs,      \* loop variable dirs  (line 9, pruned at line 11)
          files,     \* the files of root the inner loop has still to handle
          out,       \* the strings written to fout in this run, in order
          finished   \* the output document of every completed run, oldest first

vars == <<fs, pc, stack, root, dirs, files, out, finished>>

(***************************************************************************)
(* Bounds of the explored inputs.                                          *)
(***************************************************************************)
MaxDepth == 2     \* nesting depth of the generated directory chains
MaxFiles == 2     \* files per directory in the generated flat trees
MaxRuns  == 2     \* consecutive runs of the script on the same tree

(***************************************************************************)
(* Constants of the script.                                                *)
(***************************************************************************)
extensiones ==
    { <<".", "s", "w", "i", "f", "t">>,
      <<".", "x", "i", "b">>,
      <<".", "s", "t", "o", "r", "y", "b", "o", "a", "r", "d">>,
      <<".", "p", "l", "i", "s", "t">>,
      <<".", "j", "s", "o", "n">>,
      <<".", "m", "d">> }

excluir_directorios ==
    { <<"P", "o", "d", "s">>,
      <<".", "g", "i", "t">>,
      <<"D", "e", "r", "i", "v", "e", "d", "D", "a", "t", "a">>,
      <<"b", "u", "i", "l", "d">>,
      <<".", "b", "u", "i", "l", "d">> }

archivo_salida ==
    <<"p", "r", "o", "y", "e", "c", "t", "o", "_", "s", "w", "i", "f", "t", ".", "t", "x", "t">>

\* The argument of os.walk: the working directory.
WalkTop == <<".">>

(***************************************************************************)
(* String functions of the Python library, as the script uses them.        *)
(***************************************************************************)
UpperLetters == <<"A", "B", "C", "D", "E", "F", "G", "H", "I", "J", "K", "L", "M",
                  "N", "O", "P", "Q", "R", "S", "T", "U", "V", "W", "X", "Y", "Z">>
LowerLetters == <<"a", "b", "c", "d", "e", "f", "g", "h", "i", "j", "k", "l", "m",
                  "n", "o", "p", "q", "r", "s", "t", "u", "v", "w", "x", "y", "z">>

\* str.lower() on one character.
LowerChar(c) ==
    IF \E i \in 1..Len(UpperLetters) : UpperLetters[i] = c
    THEN LowerLetters[CHOOSE i \in 1..Len(UpperLetters) : UpperLetters[i] = c]
    ELSE c

\* d.lower()
Lower(s) == [i \in 1..Len(s) |-> LowerChar(s[i])]

\* d.startswith(p)
StartsWith(s, p) == Len(s) >= Len(p) /\ SubSeq(s, 1, Len(p)) = p

\* p in s   (substring test)
Contains(s, p) ==
    \E i \in 1..(Len(s) - Len(p) + 1) : SubSeq(s, i, i + Len(p) - 1) = p

\* s.rfind(c) + 1: the 1-based index of the last c in s, 0 when there is none.
RFind(s, c) ==
    IF \E i \in 1..Len(s) : s[i] = c
    THEN CHOOSE i \in 1..Len(s) : s[i] = c /\ \A j \in (i+1)..Len(s) : s[j] # c
    ELSE 0

\* SplitExt as a plain cut at the last dot, leading dots included.
SplitExtLastDot(name) ==
    IF RFind(name, ".") > 0 THEN SubSeq(name, RFind(name, "."), Len(name)) ELSE << >>

\* os.path.splitext(file)[1] for a file name (no separator in it): the suffix
\* from the last dot, unless only dots precede that dot.
SplitExt(name) ==
    LET dot == RFind(name, ".")
    IN  IF dot > 0 /\ \E k \in 1..(dot - 1) : name[k] # "."
        THEN SubSeq(name, dot, Len(name))
        ELSE << >>

\* os.path.join(root, file) on POSIX, for a relative file name.
Join(r, name) == r \o <<"/">> \o name

RECURSIVE Flat(_)
\* The document: the concatenation of the strings written to it.
Flat(chunks) ==
    IF chunks = << >> THEN << >> ELSE Head(chunks) \o Flat(Tail(chunks))

RECURSIVE Reverse(_)
\* reversed(dirs)
Reverse(s) ==
    IF s = << >> THEN << >> ELSE Append(Reverse(Tail(s)), Head(s))

(***************************************************************************)
(* The script's own computations.                                          *)
(***************************************************************************)
\* Keep with the test for the marker done on d itself, not on d.lower().
KeepCaseSensitive(d) ==
    /\ d \notin excluir_directorios
    /\ ~StartsWith(d, <<".">>)
    /\ ~Contains(d, <<"t", "e", "s", "t">>)

\* The filter of the list comprehension: d stays in dirs.
Keep(d) ==
    /\ d \notin excluir_directorios
    /\ ~StartsWith(d, <<".">>)
    /\ ~Contains(Lower(d), <<"t", "e", "s", "t">>)

\* Prune with the slice assignment replaced by a rebinding of dirs, which
\* os.walk does not see.
PruneRebound(ds) == ds

\* dirs[:] = [d for d in dirs if ...]
Prune(ds) == SelectSeq(ds, Keep)

\* Selected with the extension folded to lower case before the test.
SelectedAnyCase(name) == Lower(SplitExt(name)) \in extensiones

\* os.path.splitext(file)[1] in extensiones
Selected(name) == SplitExt(name) \in extensiones

\* Header with the blank line after the header line instead of before it.
HeaderBlankAfter(ruta) ==
    <<"=", "=", "=", "=", "=", " ">> \o ruta
        \o <<" ", "=", "=", "=", "=", "=", "\n", "\n">>

\* f"\n\n===== {ruta} =====\n"
Header(ruta) ==
    <<"\n", "\n", "=", "=", "=", "=", "=", " ">> \o ruta
        \o <<" ", "=", "=", "=", "=", "=", "\n">>

\* The bytes of a file are ASCII characters or the byte 0xFF, which no UTF-8
\* text contains.
InvalidByte == "0xFF"

ValidByte(b) == b # InvalidByte

\* bytes.decode('utf-8', errors='ignore'): undecodable bytes are dropped.
DecodeIgnore(bytes) == SelectSeq(bytes, ValidByte)

RECURSIVE UniversalNewlines(_)
\* Text mode with newline=None: "\r\n" and a lone "\r" are read as "\n".
UniversalNewlines(s) ==
    IF s = << >> THEN << >>
    ELSE IF Head(s) = "\r"
         THEN IF Len(s) >= 2 /\ s[2] = "\n"
              THEN <<"\n">> \o UniversalNewlines(SubSeq(s, 3, Len(s)))
              ELSE <<"\n">> \o UniversalNewlines(Tail(s))
         ELSE <<Head(s)>> \o UniversalNewlines(Tail(s))

\* ReadText with newline='' (no translation of line ends).
ReadTextUntranslated(bytes) == DecodeIgnore(bytes)

\* open(ruta, 'r', encoding='utf-8', errors='ignore').read()
ReadText(bytes) == UniversalNewlines(DecodeIgnore(bytes))

\* The exceptions open() raises in the model, and the ones below Exception.
ExceptionClasses == {"PermissionError", "FileNotFoundError"}

\* Caught for a handler written as: except FileNotFoundError as e
CaughtMissingOnly(e) == e = "FileNotFoundError"

\* except Exception as e
Caught(e) == e \in ExceptionClasses

\* os.strerror of the errno the exception carries, as str(e) prints it.
ErrnoText(e) ==
    IF e = "PermissionError"
    THEN <<"[", "E", "r", "r", "n", "o", " ", "1", "3", "]", " ", "P", "e", "r", "m",
           "i", "s", "s", "i", "o", "n", " ", "d", "e", "n", "i", "e", "d">>
    ELSE <<"[", "E", "r", "r", "n", "o", " ", "2", "]", " ", "N", "o", " ", "s", "u",
           "c", "h", " ", "f", "i", "l", "e", " ", "o", "r", " ", "d", "i", "r", "e",
           "c", "t", "o", "r", "y">>

\* str(e) of the OSError open(ruta) raises: "[Errno n] text: 'ruta'"
StrError(e, ruta) == ErrnoText(e) \o <<":", " ", "'">> \o ruta \o <<"'">>

\* f"[Error leyendo {ruta}: {e}]\n"
Annotation(ruta, e) ==
    <<"[", "E", "r", "r", "o", "r", " ", "l", "e", "y", "e", "n", "d", "o", " ">>
        \o ruta \o <<":", " ">> \o StrError(e, ruta) \o <<"]", "\n">>

\* Push that puts the subdirectories below the directories already waiting,
\* which makes the walk breadth-first.
PushBelow(stk, top, ds) == Reverse([i \in 1..Len(ds) |-> Join(top, ds[i])]) \o stk

\* The stack of os.walk after the body has run for top: the kept
\* subdirectories are pushed in reverse, so that the first is yielded next.
Push(stk, top, ds) == stk \o Reverse([i \in 1..Len(ds) |-> Join(top, ds[i])])

\* WalkStart with the filter of the subdirectories applied to the top too.
WalkStartFiltered == IF Keep(WalkTop) THEN <<WalkTop>> ELSE << >>

\* The initial stack of os.walk('.'): the top is yielded whatever its name.
WalkStart == <<WalkTop>>

\* OpenForWrite for mode 'a': the previous content stays.
OpenForAppend(old) == old

\* What open(archivo_salida, 'w') leaves of the file's previous content.
OpenForWrite(old) == << >>

(***************************************************************************)
(* The file system.  fs[path] is the listing of the directory at path:     *)
(* the names of its subdirectories and its other entries, in the order     *)
(* os.scandir returns them.  A file is [name, bytes, err]: err is "ok"     *)
(* when open() succeeds and the exception class it raises otherwise.       *)
(***************************************************************************)
File(name, bytes, err) == [name |-> name, bytes |-> bytes, err |-> err]

\* The index of the entry called name in a listing of files, 0 if absent.
IndexOf(fl, name) ==
    IF \E i \in 1..Len(fl) : fl[i].name = name
    THEN CHOOSE i \in 1..Len(fl) : fl[i].name = name
    ELSE 0

\* The listing fl with entry f inserted so that it becomes entry pos.
InsertAt(fl, pos, f) ==
    SubSeq(fl, 1, pos - 1) \o <<f>> \o SubSeq(fl, pos, Len(fl))

\* The output file holds bytes from now on (it exists in the listing).
WithOutputBytes(tree, bytes) ==
    LET fl == tree[WalkTop].files
        i  == IndexOf(fl, archivo_salida)
    IN  [tree EXCEPT ![WalkTop].files[i].bytes = bytes]

(***************************************************************************)
(* The trees the script is run on.                                         *)
(***************************************************************************)
\* Directory names: the five excluded names, two more hidden or test-like
\* names in other letter cases, and names the filter keeps.
DirNames ==
    { <<"P", "o", "d", "s">>,
      <<".", "g", "i", "t">>,
      <<"D", "e", "r", "i", "v", "e", "d", "D", "a", "t", "a">>,
      <<"b", "u", "i", "l", "d">>,
      <<".", "b", "u", "i", "l", "d">>,
      <<".", "s", "w", "i", "f", "t", "p", "m">>,
      <<"T", "e", "s", "t", "s">>,
      <<"U", "I", "T", "E", "S", "T">>,
      <<"t", "e", "s", "t", "_", "d", "a", "t", "a">>,
      <<"s", "r", "c">>,
      <<"B", "u", "i", "l", "d">> }

Hello == <<"h", "e", "l", "l", "o">>

\* The file every directory of a chain holds.
ConfigJson == File(<<"c", "o", "n", "f", "i", "g", ".", "j", "s", "o", "n">>, <<"{", "}">>, "ok")

BMd == File(<<"b", ".", "m", "d">>, Hello, "ok")

APy == File(<<"a", ".", "p", "y">>, <<"x">>, "ok")

CMd == File(<<"c", ".", "m", "d">>, <<"c">>, "ok")

XSwift == File(<<"x", ".", "s", "w", "i", "f", "t">>, <<"s">>, "ok")

LibDir == <<"l", "i", "b">>

TestData == <<"t", "e", "s", "t", "_", "d", "a", "t", "a">>

\* The files of the flat trees: every allow-listed extension, other letter
\* cases, no extension, dots only at the front, several dots, files that
\* cannot be opened, bytes that decoding changes, an output of an earlier run.
FileChoices ==
    { APy, BMd, XSwift,
      File(<<"a", ".", "J", "S", "O", "N">>, <<"J">>, "ok"),
      File(<<"a", ".", "S", "w", "i", "f", "t">>, <<"S">>, "ok"),
      File(<<"R", "E", "A", "D", "M", "E">>, <<"r">>, "ok"),
      File(<<".", "j", "s", "o", "n">>, <<"{", "}">>, "ok"),
      File(<<".", ".", "m", "d">>, <<"d">>, "ok"),
      File(<<"a", ".", "t", "a", "r", ".", "j", "s", "o", "n">>, <<"t">>, "ok"),
      File(<<"I", "n", "f", "o", ".", "p", "l", "i", "s", "t", ".", "b", "a", "k">>, <<"k">>, "ok"),
      File(<<"I", "n", "f", "o", ".", "p", "l", "i", "s", "t">>, << >>, "ok"),
      File(<<"V", ".", "x", "i", "b">>, <<"v">>, "ok"),
      File(<<"M", ".", "s", "t", "o", "r", "y", "b", "o", "a", "r", "d">>, <<"m">>, "ok"),
      File(<<"l", "o", "c", "k", "e", "d", ".", "j", "s", "o", "n">>, <<"L">>, "PermissionError"),
      File(<<"g", "o", "n", "e", ".", "m", "d">>, << >>, "FileNotFoundError"),
      File(<<"c", "r", "l", "f", ".", "m", "d">>, <<"h", "\r", "\n", "i", "\r", "j">>, "ok"),
      File(<<"b", "a", "d", ".", "j", "s", "o", "n">>, <<"h", InvalidByte, "k">>, "ok"),
      File(archivo_salida, <<"o", "l", "d">>, "ok") }

Dir(ds, fl) == [dirs |-> ds, files |-> fl]

RECURSIVE Chains(_, _)
\* The subtrees at path p that are a chain of at most n nested directories
\* below p, each directory holding config.json.
Chains(p, n) ==
    IF n = 0
    THEN { p :> Dir(<< >>, <<ConfigJson>>) }
    ELSE Chains(p, 0) \cup
         UNION { { (p :> Dir(<<d>>, <<ConfigJson>>)) @@ sub :
                       sub \in Chains(Join(p, d), n - 1) } : d \in DirNames }

\* The working directory holds b.md, the directory lib with x.swift and one
\* chain, listed before or after lib.
TreesChain ==
    UNION { UNION { { (WalkTop :> Dir(ds, <<BMd>>))
                        @@ (Join(WalkTop, LibDir) :> Dir(<< >>, <<XSwift>>))
                        @@ sub :
                          ds \in { <<d, LibDir>>, <<LibDir, d>> } } :
                    sub \in Chains(Join(WalkTop, d), MaxDepth - 1) } :
            d \in DirNames }

RECURSIVE Listings(_)
\* The listings of exactly n files of FileChoices with distinct names.
Listings(n) ==
    IF n = 0 THEN { << >> }
    ELSE UNION { { Append(l, f) :
                       f \in { g \in FileChoices : \A i \in 1..(n - 1) : l[i].name # g.name } } :
                 l \in Listings(n - 1) }

\* The working directory holds at most MaxFiles files and no directory.
TreesFlat ==
    { (WalkTop :> Dir(<< >>, l)) : l \in UNION { Listings(n) : n \in 0..MaxFiles } }

\* a.py, b.md with content hello, and test_data/c.md.
TreesScenario ==
    { (WalkTop :> Dir(<<TestData>>, l)) @@ (Join(WalkTop, TestData) :> Dir(<< >>, <<CMd>>)) :
          l \in { <<APy, BMd>>, <<BMd, APy>> } }

\* The working directory holds a.py and one chain.
TreesPruned ==
    UNION { { (WalkTop :> Dir(<<d>>, <<APy>>)) @@ sub :
                  sub \in Chains(Join(WalkTop, d), MaxDepth - 1) } : d \in DirNames }

Trees == TreesChain \cup TreesPruned \cup TreesFlat \cup TreesScenario

(***************************************************************************)
(* The script, one action per step.                                        *)
(***************************************************************************)
Init ==
    /\ fs \in Trees
    /\ pc = "start"
    /\ stack = << >>
    /\ root = WalkTop
    /\ dirs = << >>
    /\ files = << >>
    /\ out = << >>
    /\ finished = << >>

\* Line 8: open(archivo_salida, 'w') creates the file in the working
\* directory or truncates it; line 9: os.walk('.') starts.
OpenOutput ==
    /\ pc = "start"
    /\ LET fl   == fs[WalkTop].files
           i    == IndexOf(fl, archivo_salida)
           left == IF i = 0 THEN << >> ELSE OpenForWrite(fl[i].bytes)
       IN  /\ IF i = 0
              THEN \E pos \in 1..(Len(fl) + 1) :
                       fs' = [fs EXCEPT ![WalkTop].files =
                                 InsertAt(fl, pos, File(archivo_salida, << >>, "ok"))]
              ELSE fs' = WithOutputBytes(fs, left)
           /\ out' = IF left = << >> THEN << >> ELSE <<left>>
    /\ stack' = WalkStart
    /\ pc' = "walk"
    /\ UNCHANGED <<root, dirs, files, finished>>

\* Line 9: os.walk yields the next directory with its listing; lines 11-16
\* prune dirs in place.
NextDir ==
    /\ pc = "walk"
    /\ stack # << >>
    /\ LET top == stack[Len(stack)]
       IN  /\ root' = top
           /\ dirs' = Prune(fs[top].dirs)
           /\ files' = fs[top].files
    /\ stack' = SubSeq(stack, 1, Len(stack) - 1)
    /\ pc' = "files"
    /\ UNCHANGED <<fs, out, finished>>

\* Lines 18-19: the extension of the next file is not in extensiones.
SkipFile ==
    /\ pc = "files"
    /\ files # << >>
    /\ ~Selected(Head(files).name)
    /\ files' = Tail(files)
    /\ UNCHANGED <<fs, pc, stack, root, dirs, out, finished>>

\* Lines 19-24: the file is selected and read; header and text are written.
CopyFile ==
    /\ pc = "files"
    /\ files # << >>
    /\ Selected(Head(files).name)
    /\ Head(files).err = "ok"
    /\ LET ruta == Join(root, Head(files).name)
       IN  out' = out \o <<Header(ruta), ReadText(Head(files).bytes)>>
    /\ files' = Tail(files)
    /\ UNCHANGED <<fs, pc, stack, root, dirs, finished>>

\* Lines 19-26: the file is selected, the header is written and open()
\* raises; the handler writes the annotation when it catches the exception,
\* otherwise the exception leaves the with block, which closes fout.
AnnotateError ==
    /\ pc = "files"
    /\ files # << >>
    /\ Selected(Head(files).name)
    /\ Head(files).err # "ok"
    /\ LET ruta == Join(root, Head(files).name)
           e    == Head(files).err
       IN  IF Caught(e)
           THEN /\ out' = out \o <<Header(ruta), Annotation(ruta, e)>>
                /\ files' = Tail(files)
                /\ UNCHANGED <<fs, pc>>
           ELSE /\ out' = Append(out, Header(ruta))
                /\ fs' = WithOutputBytes(fs, Flat(out'))
                /\ pc' = "aborted"
                /\ UNCHANGED files
    /\ UNCHANGED <<stack, root, dirs, finished>>

\* The inner loop is over: os.walk resumes and stacks the kept directories.
Descend ==
    /\ pc = "files"
    /\ files = << >>
    /\ stack' = Push(stack, root, dirs)
    /\ pc' = "walk"
    /\ UNCHANGED <<fs, root, dirs, files, out, finished>>

\* os.walk is exhausted: the with block of line 8 closes fout.
Close ==
    /\ pc = "walk"
    /\ stack = << >>
    /\ fs' = WithOutputBytes(fs, Flat(out))
    /\ finished' = Append(finished, Flat(out))
    /\ pc' = "done"
    /\ UNCHANGED <<stack, root, dirs, files, out>>

\* The script is run again in the same working directory.
Rerun ==
    /\ pc = "done"
    /\ Len(finished) < MaxRuns
    /\ pc' = "start"
    /\ UNCHANGED <<fs, stack, root, dirs, files, out, finished>>

Next ==
    \/ OpenOutput
    \/ NextDir
    \/ SkipFile
    \/ CopyFile
    \/ AnnotateError
    \/ Descend
    \/ Close
    \/ Rerun

Spec == Init /\ [][Next]_vars

(***************************************************************************)
(* Vocabulary of the properties, stated on names, paths and the document,  *)
(* independently of the operators the actions use.                         *)
(***************************************************************************)
AllowList ==
    { <<".", "s", "w", "i", "f", "t">>, <<".", "x", "i", "b">>,
      <<".", "s", "t", "o", "r", "y", "b", "o", "a", "r", "d">>,
      <<".", "p", "l", "i", "s", "t">>, <<".", "j", "s", "o", "n">>, <<".", "m", "d">> }

ExclusionSet ==
    { <<"P", "o", "d", "s">>, <<".", "g", "i", "t">>,
      <<"D", "e", "r", "i", "v", "e", "d", "D", "a", "t", "a">>,
      <<"b", "u", "i", "l", "d">>, <<".", "b", "u", "i", "l", "d">> }

\* name contains t, e, s, t in a row, each in either letter case.
HasTestMarker(name) ==
    \E i \in 1..(Len(name) - 3) :
        /\ name[i]     \in {"t", "T"}
        /\ name[i + 1] \in {"e", "E"}
        /\ name[i + 2] \in {"s", "S"}
        /\ name[i + 3] \in {"t", "T"}

\* name is in the exclusion set, begins with '.', or contains the test marker.
ExcludedName(name) ==
    \/ name \in ExclusionSet
    \/ (Len(name) > 0 /\ name[1] = ".")
    \/ HasTestMarker(name)

\* The substring of name that starts at its last '.', empty without a '.'.
LastDotSuffix(name) ==
    IF \E i \in 1..Len(name) : name[i] = "."
    THEN LET last == CHOOSE i \in 1..Len(name) :
                         name[i] = "." /\ \A j \in (i + 1)..Len(name) : name[j] # "."
         IN  SubSeq(name, last, Len(name))
    ELSE << >>

\* Some character of name before its last '.' is not a '.'.
HasStem(name) ==
    \E i \in 1..Len(name) :
        /\ name[i] # "."
        /\ \E j \in (i + 1)..Len(name) : name[j] = "."

RECURSIVE Components(_)
\* The components of a path, split at "/".
Components(p) ==
    IF \E i \in 1..Len(p) : p[i] = "/"
    THEN LET i == CHOOSE k \in 1..Len(p) : p[k] = "/" /\ \A j \in 1..(k - 1) : p[j] # "/"
         IN  <<SubSeq(p, 1, i - 1)>> \o Components(SubSeq(p, i + 1, Len(p)))
    ELSE <<p>>

\* The components of the path of a directory below the working directory.
BelowTop(p) == Tail(Components(p))

\* The directory at path p is not excluded and neither is one above it.
Reached(p) == \A k \in 1..Len(BelowTop(p)) : ~ExcludedName(BelowTop(p)[k])

\* The number of records in the document: each is two writes.
NumRecords == Len(out) \div 2

RecHeader(i) == out[2 * i - 1]

RecBody(i) == out[2 * i]

\* The path between "\n\n===== " and " =====\n" in the header of record i.
RecPath(i) == SubSeq(RecHeader(i), 9, Len(RecHeader(i)) - 7)

\* The directory of the file record i names.
RecDir(i) ==
    LET c == Components(RecPath(i))
    IN  SubSeq(RecPath(i), 1, Len(RecPath(i)) - Len(c[Len(c)]) - 1)

\* The name of the file record i names.
RecName(i) == Components(RecPath(i))[Len(Components(RecPath(i)))]

\* The header line of a record for path, with the blank line before it.
HeaderOf(path) ==
    <<"\n", "\n">> \o <<"=", "=", "=", "=", "=">> \o <<" ">> \o path \o <<" ">>
        \o <<"=", "=", "=", "=", "=">> \o <<"\n">>

\* The records whose header names path.
RecordsOf(path) == { i \in 1..NumRecords : RecHeader(i) = HeaderOf(path) }

\* The text of a file: its bytes without the undecodable ones, every "\r\n"
\* and every other "\r" turned into "\n".
TextOf(bytes) ==
    LET t    == SelectSeq(bytes, LAMBDA b : b # "0xFF")
        idx  == [i \in 1..Len(t) |-> i]
        kept == SelectSeq(idx, LAMBDA i : ~(t[i] = "\n" /\ i > 1 /\ t[i - 1] = "\r"))
    IN  [k \in 1..Len(kept) |-> IF t[kept[k]] = "\r" THEN "\n" ELSE t[kept[k]]]

\* The files of the tree other than the output file of the script, as
\* <<directory, index in its listing>>.
TreeFiles ==
    { <<p, k>> \in UNION { { <<q, j>> : j \in 1..Len(fs[q].files) } : q \in DOMAIN fs } :
          ~(p = WalkTop /\ fs[p].files[k].name = archivo_salida) }

FileAt(pk) == fs[pk[1]].files[pk[2]]

PathAt(pk) == pk[1] \o <<"/">> \o FileAt(pk).name

\* The file's name has a stem and its last-dot suffix is allow-listed.
Selectable(name) == HasStem(name) /\ LastDotSuffix(name) \in AllowList

(***************************************************************************)
(* Properties.                                                             *)
(***************************************************************************)

\* C1: a directory whose name is in the exclusion set, begins with '.' or
\* contains 'test' in any letter case is never visited, at any depth: the
\* directory the loop is in, the directories waiting on the stack and the
\* path of every record pass through no such directory.
C1_PrunedNeverVisited ==
    /\ pc = "files" => Reached(root)
    /\ \A k \in 1..Len(stack) : Reached(stack[k])
    /\ \A i \in 1..NumRecords : Reached(RecDir(i))

\* A finished run on a tree with an excluded directory nested below a kept
\* one, holding a file with an allow-listed extension, and with records.
C1_Witness ==
    /\ pc = "done"
    /\ NumRecords > 0
    /\ \E pk \in TreeFiles :
           /\ Len(BelowTop(pk[1])) >= 2
           /\ ExcludedName(BelowTop(pk[1])[Len(BelowTop(pk[1]))])
           /\ ~ExcludedName(BelowTop(pk[1])[1])
           /\ LastDotSuffix(FileAt(pk).name) \in AllowList

\* C2 as stated, read for the files the walk reaches and the extension the
\* script computes: every such readable file has exactly one record, whose
\* body is the file's bytes unchanged.
C2_Original ==
    pc = "done" =>
        \A pk \in TreeFiles :
            (Reached(pk[1]) /\ FileAt(pk).err = "ok" /\ Selectable(FileAt(pk).name))
                => /\ Cardinality(RecordsOf(PathAt(pk))) = 1
                   /\ \A i \in RecordsOf(PathAt(pk)) : RecBody(i) = FileAt(pk).bytes

\* C2 amended: every readable file in a directory the walk reaches, whose
\* name has a stem and an allow-listed last-dot suffix, has exactly one
\* record; its header names the joined path and its body is the file's
\* text: the bytes without the undecodable ones, line ends read as "\n".
C2_OneRecordWithText ==
    pc = "done" =>
        \A pk \in TreeFiles :
            (Reached(pk[1]) /\ FileAt(pk).err = "ok" /\ Selectable(FileAt(pk).name))
                => /\ Cardinality(RecordsOf(PathAt(pk))) = 1
                   /\ \A i \in RecordsOf(PathAt(pk)) : RecBody(i) = TextOf(FileAt(pk).bytes)

\* A finished run that copied a file whose text differs from its bytes.
C2_Witness ==
    /\ pc = "done"
    /\ \E pk \in TreeFiles :
           /\ Reached(pk[1]) /\ FileAt(pk).err = "ok" /\ Selectable(FileAt(pk).name)
           /\ TextOf(FileAt(pk).bytes) # FileAt(pk).bytes
           /\ RecordsOf(PathAt(pk)) # {}

\* C3: every record names a file whose last-dot suffix is, character for
\* character, one of the six allow-listed extensions.
C3_OnlyAllowListed ==
    \A i \in 1..NumRecords : LastDotSuffix(RecName(i)) \in AllowList

\* A finished run with records over a directory holding a file without a
\* record whose extension differs from an allow-listed one in letter case.
C3_Witness ==
    /\ pc = "done"
    /\ NumRecords > 0
    /\ \E pk \in TreeFiles :
           /\ Reached(pk[1])
           /\ LastDotSuffix(FileAt(pk).name) \notin AllowList
           /\ Lower(LastDotSuffix(FileAt(pk).name)) \in AllowList
           /\ RecordsOf(PathAt(pk)) = {}

\* The text of the annotation for a file at path that open() refused with e.
AnnotationOf(path, e) ==
    <<"[", "E", "r", "r", "o", "r", " ", "l", "e", "y", "e", "n", "d", "o", " ">> \o path
        \o <<":", " ">> \o ErrnoText(e) \o <<":", " ", "'">> \o path \o <<"'", "]", "\n">>

\* C4: a failed read does not end the run: the script never aborts and
\* always has a next step until it is done, and in the finished document
\* every selected file of a reached directory has exactly one record,
\* which for an unreadable file is its header followed by the annotation
\* naming the path and the error.
C4_ReadFailureAnnotated ==
    /\ pc # "aborted"
    /\ pc # "done" => ENABLED Next
    /\ pc = "done" =>
           \A pk \in TreeFiles :
               (Reached(pk[1]) /\ Selectable(FileAt(pk).name))
                   => /\ Cardinality(RecordsOf(PathAt(pk))) = 1
                      /\ FileAt(pk).err # "ok" =>
                             \A i \in RecordsOf(PathAt(pk)) :
                                 RecBody(i) = AnnotationOf(PathAt(pk), FileAt(pk).err)

\* A finished run in which an unreadable selected file was followed in the
\* listing by another selected file, both with a record.
C4_Witness ==
    /\ pc = "done"
    /\ \E pk \in TreeFiles : \E ql \in TreeFiles :
           /\ pk[1] = ql[1] /\ pk[2] < ql[2]
           /\ FileAt(pk).err = "PermissionError"
           /\ Selectable(FileAt(pk).name) /\ Selectable(FileAt(ql).name)
           /\ \E i \in RecordsOf(PathAt(pk)) : \E j \in RecordsOf(PathAt(ql)) : i < j

\* C5: consecutive runs on the same tree produce identical documents, and
\* the output file in the working directory has no record.
C5_Idempotent ==
    /\ \A r \in 2..Len(finished) : finished[r] = finished[r - 1]
    /\ pc = "done" => RecordsOf(WalkTop \o <<"/">> \o archivo_salida) = {}

\* A second run has finished with a document that is not empty.
C5_Witness ==
    /\ pc = "done"
    /\ Len(finished) >= 2
    /\ finished[2] # << >>

\* The tree of the scenario: a.py, b.md holding hello, test_data/c.md.
IsScenario ==
    /\ DOMAIN fs = {WalkTop, WalkTop \o <<"/">> \o TestData}
    /\ fs[WalkTop].dirs = <<TestData>>
    /\ { FileAt(pk) : pk \in { qk \in TreeFiles : qk[1] = WalkTop } } = {APy, BMd}
    /\ fs[WalkTop \o <<"/">> \o TestData].files = <<CMd>>

\* C6 as stated: the one record holds the header line, a newline, an empty
\* line and then hello.
C6_Original ==
    (pc = "done" /\ IsScenario) =>
        /\ NumRecords = 1
        /\ Contains(Flat(out),
               <<"=", "=", "=", "=", "=", " ", ".", "/", "b", ".", "m", "d", " ",
                 "=", "=", "=", "=", "=", "\n", "\n", "h", "e", "l", "l", "o">>)

\* C6 amended: the document of the scenario is exactly two newlines, the
\* header line of ./b.md, one newline and hello.
C6_ScenarioDocument ==
    (pc = "done" /\ IsScenario) =>
        /\ NumRecords = 1
        /\ Flat(out) =
               <<"\n", "\n", "=", "=", "=", "=", "=", " ", ".", "/", "b", ".", "m", "d", " ",
                 "=", "=", "=", "=", "=", "\n", "h", "e", "l", "l", "o">>

\* A finished run on the scenario's tree.
C6_Witness == pc = "done" /\ IsScenario /\ Len(out) > 0

\* No file of the tree has an allow-listed suffix in a reached directory.
NoneSelected ==
    \A pk \in TreeFiles : ~(Reached(pk[1]) /\ LastDotSuffix(FileAt(pk).name) \in AllowList)

\* C7: when no file is selected the run finishes and the output file exists
\* and is empty.
C7_EmptyDocument ==
    (pc = "done" /\ NoneSelected) =>
        /\ Flat(out) = << >>
        /\ \E k \in 1..Len(fs[WalkTop].files) :
               /\ fs[WalkTop].files[k].name = archivo_salida
               /\ fs[WalkTop].files[k].bytes = << >>

\* A finished run on a tree whose only allow-listed files lie below an
\* excluded directory, next to a file with another extension.
C7_Witness ==
    /\ pc = "done"
    /\ NoneSelected
    /\ \E pk \in TreeFiles : LastDotSuffix(FileAt(pk).name) \in AllowList
    /\ \E pk \in TreeFiles : Reached(pk[1]) /\ LastDotSuffix(FileAt(pk).name) \notin AllowList

\* Record i names a file in the directory at path d or below it.
RecUnder(i, d) == RecDir(i) = d \/ StartsWith(RecDir(i), d \o <<"/">>)

\* The records are in pre-order: none is in a directory above the
\* directory of an earlier one, and the records under one directory are
\* contiguous.
PreOrder ==
    /\ \A i \in 1..NumRecords : \A j \in (i + 1)..NumRecords :
           ~(RecDir(i) # RecDir(j) /\ RecUnder(i, RecDir(j)))
    /\ \A d \in DOMAIN fs :
           \A i \in 1..NumRecords : \A k \in (i + 1)..NumRecords :
               (RecUnder(i, d) /\ RecUnder(k, d))
                   => \A j \in (i + 1)..(k - 1) : RecUnder(j, d)

\* s is an initial part of t.
IsPrefix(s, t) == Len(s) <= Len(t) /\ SubSeq(t, 1, Len(s)) = s

\* C8: the document is only appended to once it is open, and its records
\* are in depth-first pre-order.
C8_PreOrderAppendOnly ==
    /\ []PreOrder
    /\ [][pc # "start" => IsPrefix(out, out')]_vars

\* A finished run with records from the working directory, a subdirectory,
\* a directory below that one and a sibling subdirectory.
C8_Witness ==
    /\ pc = "done"
    /\ \E i, j, k, l \in 1..NumRecords :
           /\ RecDir(i) = WalkTop
           /\ RecDir(j) # WalkTop
           /\ RecDir(k) # RecDir(j) /\ RecUnder(k, RecDir(j))
           /\ ~RecUnder(l, RecDir(j)) /\ RecDir(l) # WalkTop

\* C9 as stated: a file of a reached directory has a record exactly when
\* the substring from its last '.' is in the allow-list.
C9_Original ==
    pc = "done" =>
        \A pk \in TreeFiles :
            Reached(pk[1]) =>
                (RecordsOf(PathAt(pk)) # {} <=> LastDotSuffix(FileAt(pk).name) \in AllowList)

\* C9 amended: a file of a reached directory has a record exactly when the
\* substring from its last '.' is in the allow-list and some character
\* before that '.' is not a '.'.
C9_SelectedBySuffixWithStem ==
    pc = "done" =>
        \A pk \in TreeFiles :
            Reached(pk[1]) =>
                (RecordsOf(PathAt(pk)) # {}
                    <=> (LastDotSuffix(FileAt(pk).name) \in AllowList /\ HasStem(FileAt(pk).name)))

\* A finished run over a directory holding a file without a record whose
\* only '.' is its first character and a file with a record.
C9_Witness ==
    /\ pc = "done"
    /\ \E pk \in TreeFiles : \E ql \in TreeFiles :
           /\ pk[1] = ql[1]
           /\ LastDotSuffix(FileAt(pk).name) = FileAt(pk).name
           /\ FileAt(pk).name \in AllowList
           /\ RecordsOf(PathAt(pk)) = {}
           /\ RecordsOf(PathAt(ql)) # {}

\* C10: the filter is not applied to the top of the walk: the working
\* directory is visited, and every selectable file directly in it has a
\* record when the run finishes.
C10_TopAlwaysVisited ==
    pc = "done" =>
        \A pk \in TreeFiles :
            (pk[1] = WalkTop /\ Selectable(FileAt(pk).name)) => RecordsOf(PathAt(pk)) # {}

\* A finished run with a record for a file of the working directory, whose
\* name "." the filter would exclude.
C10_Witness ==
    /\ pc = "done"
    /\ ExcludedName(WalkTop)
    /\ \E pk \in TreeFiles : pk[1] = WalkTop /\ RecordsOf(PathAt(pk)) # {}

====
